---- MODULE Spec2Model ----
(***************************************************************************)
(* go2oapi: ParseFunction (parser.go) as a state machine.                  *)
(*                                                                         *)
(* The analysed source (the result of packages.Load) is the input: a list  *)
(* of packages, each a list of files, each a list of top-level             *)
(* declarations.  ParseFunction scans the packages for the requested       *)
(* function, then translates its parameter list one parameter at a time.   *)
(*                                                                         *)
(* Strings that the code takes apart (struct tag values) are sequences of  *)
(* pieces, "," being the separator piece; names and type strings that are  *)
(* only compared are TLA+ strings.  Doc comments (Description) influence   *)
(* no other field and are left out of the Definition records.              *)
(***************************************************************************)
EXTENDS Integers, Sequences, FiniteSets, TLC

\* ------------------------------------------------------------------------
\* DataType (README.md, the types file) and the Definition record
\* ------------------------------------------------------------------------
Object == "object"
Number == "number"
Integer == "integer"
String == "string"
Array == "array"
Null == "null"
Boolean == "boolean"
\* the zero value of DataType: what a Go map lookup of a missing key returns
NoType == ""

DataTypes == {Object, Array, String, Integer, Number, Boolean, Null}

\* Definition{Type, Enum, Properties, Required, Items}; a nil slice is <<>>,
\* a nil or empty map is the empty function, a nil *Definition is <<>> and a
\* non-nil one a one-element sequence.
Def(t, e, p, r, i) == [type |-> t, enum |-> e, properties |-> p, required |-> r, items |-> i]

NoProps == [n \in {} |-> n]

NilDef == Def(NoType, <<>>, NoProps, <<>>, <<>>)

\* ------------------------------------------------------------------------
\* The syntax tree: type expressions, fields, tags
\* ------------------------------------------------------------------------
Ident(n) == [k |-> "Ident", name |-> n]
ArrayType(e) == [k |-> "ArrayType", elt |-> e]
StarExpr(e) == [k |-> "StarExpr", x |-> e]
StructType(fs) == [k |-> "StructType", fields |-> fs]
MapType == [k |-> "MapType"]
ChanType == [k |-> "ChanType"]
InterfaceType == [k |-> "InterfaceType"]
FuncType == [k |-> "FuncType"]

\* a field tag: absent, or a literal that structtag.Parse accepts (wellFormed)
\* as a list of key:"value" pairs, or one it rejects
NoTag == [present |-> FALSE, wellFormed |-> TRUE, pairs |-> <<>>]
BadTag == [present |-> TRUE, wellFormed |-> FALSE, pairs |-> <<>>]
Tag(ps) == [present |-> TRUE, wellFormed |-> TRUE, pairs |-> ps]
Pair(key, v) == [key |-> key, value |-> v]

\* ast.Field: the names of one declaration group, its type, its tag
Field(ns, t, tg) == [names |-> ns, type |-> t, tag |-> tg]

\* ------------------------------------------------------------------------
\* The analysed package's named types (the type declarations of the source
\* and what the type checker and the parser's object resolution say of them)
\* ------------------------------------------------------------------------
\* the predeclared basic type names
BasicNames == {"bool", "int", "int8", "int16", "int32", "int64",
               "uint", "uint8", "uint16", "uint32", "uint64",
               "float32", "float64", "string", "complex128", "uintptr"}

\* testdata/sample-a: type NewWidgetFactoryOptions struct {...}
OptsStruct == StructType(<<
                  Field(<<"FactoryName">>, Ident("string"), NoTag),
                  Field(<<"Category">>, Ident("string"),
                        Tag(<<Pair("enum", <<"foo", ",", "bar">>), Pair("json", <<"fieldb">>)>>)),
                  Field(<<"InventoryLevels">>, ArrayType(Ident("int")), NoTag),
                  Field(<<"Operational">>, Ident("bool"), NoTag) >>)

\* name -> the declared type, and whether the declaration is in the file that
\* uses the name (only then does the parser set ident.Obj)
TypeDecls == [n \in {"Opts", "Far", "Sub", "Bad", "M", "Ch", "I", "Fn", "MyInt", "Strs"} |->
                CASE n = "Opts" -> [type |-> OptsStruct, sameFile |-> TRUE]
                  [] n = "Far" -> [type |-> StructType(<<Field(<<"A">>, Ident("string"), NoTag)>>),
                                   sameFile |-> FALSE]
                  [] n = "Sub" -> [type |-> Ident("Opts"), sameFile |-> TRUE]
                  [] n = "Bad" -> [type |-> StructType(<<Field(<<"A">>, Ident("string"), BadTag)>>),
                                   sameFile |-> TRUE]
                  [] n = "M" -> [type |-> MapType, sameFile |-> TRUE]
                  [] n = "Ch" -> [type |-> ChanType, sameFile |-> TRUE]
                  [] n = "I" -> [type |-> InterfaceType, sameFile |-> TRUE]
                  [] n = "Fn" -> [type |-> FuncType, sameFile |-> TRUE]
                  [] n = "MyInt" -> [type |-> Ident("int"), sameFile |-> TRUE]
                  [] n = "Strs" -> [type |-> ArrayType(Ident("string")), sameFile |-> TRUE]]

NamedTypes == DOMAIN TypeDecls

\* types.Type.Underlying() of the type an expression denotes, by its kind
RECURSIVE underlying(_)
underlying(expr) ==
    CASE expr.k = "Ident" ->
             IF expr.name \in NamedTypes THEN underlying(TypeDecls[expr.name].type)
             ELSE "Basic"
      [] expr.k = "StructType" -> "Struct"
      [] expr.k = "ArrayType" -> "Slice"
      [] expr.k = "StarExpr" -> "Pointer"
      [] expr.k = "MapType" -> "Map"
      [] expr.k = "ChanType" -> "Chan"
      [] expr.k = "InterfaceType" -> "Interface"
      [] OTHER -> "Signature"

\* ------------------------------------------------------------------------
\* parser.go: the pure helpers
\* ------------------------------------------------------------------------
goTypesToDataType(name) ==
    CASE name = "int" -> Integer
      [] name = "int32" -> Integer
      [] name = "int64" -> Integer
      [] name = "string" -> String
      [] name = "float" -> Number
      [] name = "bool" -> Boolean
      [] OTHER -> NoType

RECURSIVE exprToType(_)
exprToType(expr) ==
    CASE expr.k = "Ident" ->
             IF underlying(expr) = "Struct" THEN Object ELSE goTypesToDataType(expr.name)
      [] expr.k = "ArrayType" -> Array
      [] expr.k = "StarExpr" -> exprToType(expr.x)
      [] expr.k = "StructType" -> Object
      [] OTHER -> Null

identsToName(idents) ==
    IF \E i \in 1..Len(idents) : idents[i] /= ""
    THEN idents[CHOOSE i \in 1..Len(idents) :
                    /\ idents[i] /= ""
                    /\ \A j \in 1..(i - 1) : idents[j] = ""]
    ELSE ""

\* findStructTypeFromIdent: [ok, st]
findStructTypeFromIdent(ident) ==
    IF ident.name \notin NamedTypes \/ ~TypeDecls[ident.name].sameFile
    THEN [ok |-> FALSE, st |-> StructType(<<>>)]
    ELSE IF TypeDecls[ident.name].type.k /= "StructType"
    THEN [ok |-> FALSE, st |-> StructType(<<>>)]
    ELSE [ok |-> TRUE, st |-> TypeDecls[ident.name].type]

\* strings.Split(value, ",") as structtag.Parse applies it to a tag's value
RECURSIVE splitComma(_)
splitComma(v) ==
    IF \E i \in 1..Len(v) : v[i] = ","
    THEN LET i == CHOOSE i \in 1..Len(v) : v[i] = "," /\ \A j \in 1..(i - 1) : v[j] /= ","
         IN  <<SubSeq(v, 1, i - 1)>> \o splitComma(SubSeq(v, i + 1, Len(v)))
    ELSE <<v>>

\* tags.Get(key): the first pair of that key
tagsGet(pairs, key) ==
    IF \E i \in 1..Len(pairs) : pairs[i].key = key
    THEN [found |-> TRUE,
          value |-> pairs[CHOOSE i \in 1..Len(pairs) :
                              /\ pairs[i].key = key
                              /\ \A j \in 1..(i - 1) : pairs[j].key /= key].value]
    ELSE [found |-> FALSE, value |-> <<>>]

\* enumOptions with value.Name forgotten
enumOptionsNoName(value) == Tail(splitComma(value))

\* the options of parseEnumTag: value.Name, then value.Options
enumOptions(value) ==
    LET res == splitComma(value)
    IN  <<Head(res)>> \o Tail(res)

\* parseEnumTag: [err, options]
parseEnumTag(tag) ==
    IF ~tag.wellFormed THEN [err |-> TRUE, options |-> <<>>]
    ELSE LET value == tagsGet(tag.pairs, "enum")
         IN  IF ~value.found THEN [err |-> FALSE, options |-> <<>>]
             ELSE [err |-> FALSE, options |-> enumOptions(value.value)]

\* setProperty that also lists the field as required
setPropertyRequired(d, name, pd) ==
    [d EXCEPT !.properties = (name :> pd) @@ @, !.required = Append(@, name)]

\* d.Properties[name] = pd
setProperty(d, name, pd) == [d EXCEPT !.properties = (name :> pd) @@ @]

\* the struct a parameter's type switch finds: [ok, st]; ok is false where st
\* stays nil
structOf(type) ==
    CASE type.k = "StructType" -> [ok |-> TRUE, st |-> type]
      [] type.k = "Ident" -> findStructTypeFromIdent(type)
      [] OTHER -> [ok |-> FALSE, st |-> StructType(<<>>)]

\* the Items of an array parameter: only the element's Type is set
itemsOf(elt) == <<Def(exprToType(elt), <<>>, NoProps, <<>>, <<>>)>>

\* paramToDetail: [status, d], status "ok", "err" (an error is returned) or
\* "panic" (a nil dereference or a failed type assertion ends the process)
RECURSIVE paramToDetail(_)
RECURSIVE structFields(_, _, _)
structFields(fields, i, d) ==
    IF i > Len(fields) THEN [status |-> "ok", d |-> d]
    ELSE LET r == paramToDetail(fields[i])
         IN  IF r.status /= "ok" THEN [status |-> r.status, d |-> NilDef]
             ELSE structFields(fields, i + 1,
                               setProperty(d, identsToName(fields[i].names), r.d))

paramToDetail(param) ==
    LET paramType == exprToType(param.type)
        e == parseEnumTag(param.tag)
        d0 == Def(paramType, IF param.tag.present THEN e.options ELSE <<>>,
                  NoProps, <<>>, <<>>)
    IN  IF param.tag.present /\ e.err THEN [status |-> "err", d |-> NilDef]
        ELSE LET r1 == IF paramType = Object
                       THEN LET s == structOf(param.type)
                            IN  IF ~s.ok THEN [status |-> "panic", d |-> NilDef]
                                ELSE structFields(s.st.fields, 1, d0)
                       ELSE [status |-> "ok", d |-> d0]
             IN  IF r1.status /= "ok" THEN r1
                 ELSE IF paramType = Array
                 THEN IF param.type.k /= "ArrayType"
                      THEN [status |-> "panic", d |-> NilDef]
                      ELSE [status |-> "ok",
                            d |-> [r1.d EXCEPT !.items = itemsOf(param.type.elt)]]
                 ELSE r1

\* findFunctionFile: [ok, fn], the first FuncDecl of the file with that name
findFunctionFile(f, funcName) ==
    IF \E i \in 1..Len(f) : f[i].kind = "FuncDecl" /\ f[i].name = funcName
    THEN [ok |-> TRUE,
          fn |-> <<f[CHOOSE i \in 1..Len(f) :
                        /\ f[i].kind = "FuncDecl" /\ f[i].name = funcName
                        /\ \A j \in 1..(i - 1) :
                              ~(f[j].kind = "FuncDecl" /\ f[j].name = funcName)]>>]
    ELSE [ok |-> FALSE, fn |-> <<>>]

\* findFunction: [ok, fn], from the first file of the package that has one
findFunction(pkg, funcName) ==
    IF \E i \in 1..Len(pkg) : findFunctionFile(pkg[i], funcName).ok
    THEN findFunctionFile(pkg[CHOOSE i \in 1..Len(pkg) :
                                  /\ findFunctionFile(pkg[i], funcName).ok
                                  /\ \A j \in 1..(i - 1) :
                                        ~findFunctionFile(pkg[j], funcName).ok],
                          funcName)
    ELSE [ok |-> FALSE, fn |-> <<>>]

\* addParam that lets a first parameter's Definition stand for the parameters
addParamFlat(parameters, name, pd) ==
    IF parameters.required = <<>> THEN pd
    ELSE [parameters EXCEPT !.properties = (name :> pd) @@ @,
                            !.required = Append(@, name)]

\* funcDetail.Parameters after one more parameter: lines 64-65
addParam(parameters, name, pd) ==
    [parameters EXCEPT !.properties = (name :> pd) @@ @,
                       !.required = Append(@, name)]

\* ------------------------------------------------------------------------
\* The inputs: the sources ParseFunction is run on
\* ------------------------------------------------------------------------
\* the most fields of a struct literal, parameter declarations of a function,
\* and top-level declarations of a source tree
MaxFields == 2
MaxParams == 2
MaxDecls == 3

SeqsUpTo(S, n) == UNION {[1..m -> S] : m \in 0..n}

TagSet == {NoTag, BadTag,
           Tag(<<Pair("enum", <<"foo", ",", "bar">>), Pair("json", <<"fieldb">>)>>),
           Tag(<<Pair("enum", <<"a">>)>>),
           Tag(<<Pair("enum", <<>>)>>),
           Tag(<<Pair("enum", <<"a", ",", ",", "b">>)>>),
           Tag(<<Pair("json", <<"x", ",", "omitempty">>)>>),
           Tag(<<Pair("json", <<"b">>), Pair("enum", <<"b", ",", "a">>), Pair("enum", <<"a">>)>>),
           Tag(<<Pair("required", <<"false">>)>>),
           Tag(<<Pair("required", <<"NO">>), Pair("enum", <<"b", ",", "a", ",", "c">>)>>),
           Tag(<<Pair("required", <<"0">>)>>),
           Tag(<<Pair("required", <<"true">>)>>)}

BadStruct == StructType(<<Field(<<"X">>, Ident("string"), BadTag)>>)
OneFieldStruct == StructType(<<Field(<<"X">>, Ident("string"), Tag(<<Pair("enum", <<"a">>)>>))>>)

\* the types of a struct literal's first field
FieldTypes == {Ident("string"), Ident("int8"), Ident("float64"), Ident("Opts"), Ident("M"),
               ArrayType(Ident("int")), ArrayType(BadStruct), ChanType,
               StarExpr(Ident("string")), StarExpr(Ident("Opts")),
               BadStruct, OneFieldStruct}

\* the fields a struct literal may have after its first
RestFields == {[type |-> Ident("string"), tag |-> Tag(<<Pair("required", <<"false">>)>>)],
               [type |-> ArrayType(Ident("int8")), tag |-> NoTag],
               [type |-> OneFieldStruct, tag |-> Tag(<<Pair("required", <<"No">>)>>)]}

FieldNames == <<"A", "B", "C", "D">>

\* struct literals: the i-th field is named FieldNames[i]
Structs == {StructType([i \in 1..(1 + Len(rest)) |->
                           IF i = 1 THEN Field(<<FieldNames[1]>>, t, tg)
                           ELSE Field(<<FieldNames[i]>>, rest[i - 1].type, rest[i - 1].tag)]) :
               <<t, tg, rest>> \in FieldTypes \X TagSet \X SeqsUpTo(RestFields, MaxFields - 1)}

Leaves == {Ident(n) : n \in BasicNames \cup NamedTypes}
              \cup {MapType, ChanType, InterfaceType, FuncType}

Wrapped == Leaves \cup {BadStruct, OneFieldStruct}

Inner == {Ident("int"), Ident("Opts"), OneFieldStruct, BadStruct}

\* the types of the parameter of a one-parameter function
ParamTypes == Leaves \cup Structs
                \cup {ArrayType(t) : t \in Wrapped} \cup {StarExpr(t) : t \in Wrapped}
                \cup {ArrayType(ArrayType(t)) : t \in Inner}
                \cup {ArrayType(StarExpr(t)) : t \in Inner}
                \cup {StarExpr(ArrayType(t)) : t \in Inner}
                \cup {StarExpr(StarExpr(t)) : t \in Inner}

\* the types and name lists of the parameters of a function of several
SiblingTypes == {Ident("string"), Ident("int8"), Ident("M"), Ident("Bad"),
                 ArrayType(ArrayType(Ident("int"))), StarExpr(Ident("Opts"))}

NameLists == {<<"a">>, <<"b">>, <<"c">>, <<"a", "b">>, <<>>}

Range(f) == {f[i] : i \in DOMAIN f}

\* what the compiler accepts: all parameters named or none, no name twice
NamesOK(ps) ==
    /\ (\A i \in DOMAIN ps : ps[i].names = <<>>) \/ (\A i \in DOMAIN ps : ps[i].names /= <<>>)
    /\ \A i, j \in DOMAIN ps : i < j => Range(ps[i].names) \cap Range(ps[j].names) = {}

ParamLists == {<<Field(<<"x">>, t, NoTag)>> : t \in ParamTypes}
                \cup {ps \in SeqsUpTo({Field(ns, t, NoTag) : ns \in NameLists, t \in SiblingTypes},
                                      MaxParams) : NamesOK(ps)}

SimpleParams == <<Field(<<"s">>, Ident("string"), NoTag)>>

\* a source tree as the list of its top-level declarations, each starting a new
\* package, a new file of the current package, or following in the same file.
\* A declaration is a FuncDecl named F or f (a function or a method: the code
\* does not look at the receiver, so a package may hold a name more than once)
\* or, "gen", a GenDecl (an import, const, type or var declaration).
Entries == [name : {"F", "f", "gen"}, brk : {"pkg", "file", "decl"}]

Layouts == {l \in SeqsUpTo(Entries, MaxDecls) : l /= <<>> /\ l[1].brk = "pkg"}

\* the i-th declaration of the tree; id stands for the identity of its node
DeclOf(e, i, params) ==
    IF e.name = "gen" THEN [kind |-> "GenDecl", name |-> "", params |-> <<>>, id |-> i]
    ELSE [kind |-> "FuncDecl", name |-> e.name, params |-> params, id |-> i]

RECURSIVE Packages(_, _, _)
Packages(l, i, params) ==
    IF i = 0 THEN <<>>
    ELSE LET before == Packages(l, i - 1, params)
             d == DeclOf(l[i], i, params)
             np == Len(before)
         IN  CASE l[i].brk = "pkg" -> Append(before, << <<d>> >>)
               [] l[i].brk = "file" -> [before EXCEPT ![np] = Append(@, <<d>>)]
               [] OTHER -> [before EXCEPT ![np] =
                               [@ EXCEPT ![Len(before[np])] = Append(@, d)]]

\* the trees packages.Load returns without an error (lines 27-34): one function
\* F with any of the parameter lists, or any layout of declarations of simple
\* functions.  TypeDecls stands for the type information of every package.
Sources == {Packages(<<[name |-> "F", brk |-> "pkg"]>>, 1, ps) : ps \in ParamLists}
             \cup {Packages(l, Len(l), SimpleParams) : l \in Layouts}

FuncNames == {"F", "f", "H"}

\* ------------------------------------------------------------------------
\* ParseFunction
\* ------------------------------------------------------------------------
VARIABLES pkgs, funcName, pc, pi, fn, pkg, k, funcDetail, result, err

vars == <<pkgs, funcName, pc, pi, fn, pkg, k, funcDetail, result, err>>

ErrFunctionNotFound == "function not found"
ErrParameter == "issue parsing parameter"

NoDetail == [name |-> "", parameters |-> NilDef]

Init ==
    /\ pkgs \in Sources
    /\ funcName \in FuncNames
    /\ pc = "find"
    /\ pi = 1
    /\ fn = <<>>
    /\ pkg = 0
    /\ k = 0
    /\ funcDetail = NoDetail
    /\ result = <<>>
    /\ err = ""

\* one turn of the loop over pkgs (lines 38-44)
FindStep ==
    /\ pc = "find"
    /\ pi <= Len(pkgs)
    /\ LET r == findFunction(pkgs[pi], funcName)
       IN  /\ fn' = IF r.ok THEN r.fn ELSE fn
           /\ pkg' = IF r.ok THEN pi ELSE pkg
    /\ pi' = pi + 1
    /\ UNCHANGED <<pkgs, funcName, pc, k, funcDetail, result, err>>

\* lines 45-47
ReturnNotFound ==
    /\ pc = "find"
    /\ pi > Len(pkgs)
    /\ fn = <<>>
    /\ pc' = "done"
    /\ result' = <<>>
    /\ err' = ErrFunctionNotFound
    /\ UNCHANGED <<pkgs, funcName, pi, fn, pkg, k, funcDetail>>

\* lines 49-56
NewDetails ==
    /\ pc = "find"
    /\ pi > Len(pkgs)
    /\ fn /= <<>>
    /\ funcDetail' = [name |-> fn[1].name,
                      parameters |-> Def(Object, <<>>, NoProps, <<>>, <<>>)]
    /\ k' = 1
    /\ pc' = "params"
    /\ UNCHANGED <<pkgs, funcName, pi, fn, pkg, result, err>>

\* one turn of the loop over the parameters (lines 58-66), the parameter
\* translated
ParamOk ==
    /\ pc = "params"
    /\ k <= Len(fn[1].params)
    /\ LET param == fn[1].params[k]
           r == paramToDetail(param)
       IN  /\ r.status = "ok"
           /\ funcDetail' = [funcDetail EXCEPT
                                !.parameters = addParam(@, identsToName(param.names), r.d)]
    /\ k' = k + 1
    /\ UNCHANGED <<pkgs, funcName, pc, pi, fn, pkg, result, err>>

\* the same turn, paramToDetail returning an error (lines 61-63)
ParamErr ==
    /\ pc = "params"
    /\ k <= Len(fn[1].params)
    /\ paramToDetail(fn[1].params[k]).status = "err"
    /\ pc' = "done"
    /\ result' = <<>>
    /\ err' = ErrParameter
    /\ UNCHANGED <<pkgs, funcName, pi, fn, pkg, k, funcDetail>>

\* the same turn, paramToDetail panicking: the process ends, nothing returned
ParamPanic ==
    /\ pc = "params"
    /\ k <= Len(fn[1].params)
    /\ paramToDetail(fn[1].params[k]).status = "panic"
    /\ pc' = "panic"
    /\ UNCHANGED <<pkgs, funcName, pi, fn, pkg, k, funcDetail, result, err>>

\* line 68
ReturnDetails ==
    /\ pc = "params"
    /\ k > Len(fn[1].params)
    /\ pc' = "done"
    /\ result' = <<funcDetail>>
    /\ err' = ""
    /\ UNCHANGED <<pkgs, funcName, pi, fn, pkg, k, funcDetail>>

Next ==
    \/ FindStep
    \/ ReturnNotFound
    \/ NewDetails
    \/ ParamOk
    \/ ParamErr
    \/ ParamPanic
    \/ ReturnDetails

Spec == Init /\ [][Next]_vars

\* ------------------------------------------------------------------------
\* What the claims speak of
\* ------------------------------------------------------------------------
Params == fn[1].params

\* ParseFunction has returned a FunctionDetails
Returned == pc = "done" /\ result /= <<>>

\* a parameter has just been translated: it, and the Definition stored for it
Translated == pc = "params" /\ k > 1
LastParam == Params[k - 1]
LastDef == funcDetail.parameters.properties[identsToName(LastParam.names)]

\* the type a type expression denotes, named types replaced by their
\* declarations
RECURSIVE Resolve(_)
Resolve(t) ==
    IF t.k = "Ident" /\ t.name \in NamedTypes THEN Resolve(TypeDecls[t.name].type) ELSE t

FieldNamesOf(st) == {identsToName(st.fields[i].names) : i \in 1..Len(st.fields)}

\* a field or parameter with its Definition, and below it every struct field
\* that has a Definition of its own, each with its Definition
RECURSIVE Nodes(_, _)
Nodes(f, d) ==
    {[f |-> f, d |-> d]} \cup
    IF d.type = Object /\ Resolve(f.type).k = "StructType"
    THEN UNION {Nodes(sf, d.properties[identsToName(sf.names)]) :
                   sf \in {x \in Range(Resolve(f.type).fields) :
                              identsToName(x.names) \in DOMAIN d.properties}}
    ELSE {}

\* the nodes that are a struct expanded into an object Definition
StructNodes(f, d) == {n \in Nodes(f, d) : n.d.type = Object /\ Resolve(n.f.type).k = "StructType"}

\* every Definition of a tree: the node, its properties, its items
RECURSIVE Defs(_)
Defs(d) ==
    {d} \cup UNION {Defs(d.properties[n]) : n \in DOMAIN d.properties}
        \cup UNION {Defs(d.items[i]) : i \in 1..Len(d.items)}

\* ------------------------------------------------------------------------
\* C1
\* ------------------------------------------------------------------------
OneProperty == Returned /\ Cardinality(DOMAIN funcDetail.parameters.properties) = 1

\* C1 as claimed: when the parameter list yields exactly one property, the
\* returned parameters are that property's own Definition.
C1_Flattened ==
    OneProperty =>
        \E n \in DOMAIN funcDetail.parameters.properties :
            result[1].parameters = funcDetail.parameters.properties[n]

\* C1 as amended: when the parameter list yields exactly one property, the
\* returned parameters are still the wrapping object: type object, that one
\* property under its name, and required naming it once per parameter
\* declaration; no struct at any level is replaced by its only field.
C1_NotFlattened ==
    OneProperty =>
        LET ps == result[1].parameters
            n == identsToName(Params[Len(Params)].names)
        IN  /\ ps.type = Object
            /\ DOMAIN ps.properties = {n}
            /\ Len(ps.required) = Len(Params)
            /\ \A i \in 1..Len(ps.required) : ps.required[i] = n
            /\ ps.items = <<>> /\ ps.enum = <<>>
            /\ ps.properties[n].type = exprToType(Params[Len(Params)].type)
            /\ \A s \in StructNodes(Params[Len(Params)], ps.properties[n]) :
                   DOMAIN s.d.properties = FieldNamesOf(Resolve(s.f.type))

\* a one-parameter function whose parameter is a struct of one field, itself a
\* struct of one field, has been translated
C1_Witness ==
    /\ OneProperty
    /\ Len(Params) = 1
    /\ Params[1].type.k = "StructType"
    /\ Len(Params[1].type.fields) = 1
    /\ Params[1].type.fields[1].type = OneFieldStruct
    /\ Params[1].type.fields[1].tag = NoTag

\* ------------------------------------------------------------------------
\* C2
\* ------------------------------------------------------------------------
LowerPiece(p) ==
    CASE p = "NO" -> "no"
      [] p = "No" -> "no"
      [] p = "FALSE" -> "false"
      [] p = "False" -> "false"
      [] OTHER -> p

\* the field carries a required tag whose value is false, no or 0 in any case
RequiredFalse(tag) ==
    /\ tag.present
    /\ \E i \in 1..Len(tag.pairs) :
          /\ tag.pairs[i].key = "required"
          /\ \A j \in 1..(i - 1) : tag.pairs[j].key /= "required"
          /\ [x \in 1..Len(tag.pairs[i].value) |-> LowerPiece(tag.pairs[i].value[x])]
                \in {<<"false">>, <<"no">>, <<"0">>}

\* C2 as claimed: in every struct expanded into an object, a field is in
\* required unless it is tagged required false/no/0, and required holds only
\* keys of properties.
C2_RequiredByTag ==
    Translated =>
        \A s \in StructNodes(LastParam, LastDef) :
            /\ \A i \in 1..Len(Resolve(s.f.type).fields) :
                  LET sf == Resolve(s.f.type).fields[i]
                  IN  (identsToName(sf.names) \in Range(s.d.required)) <=> ~RequiredFalse(sf.tag)
            /\ Range(s.d.required) \subseteq DOMAIN s.d.properties

\* C2 as amended: every struct expanded into an object has an empty required
\* list, whatever required tags its fields carry: no field appears in it,
\* tagged or not; required holds only keys of properties.
C2_RequiredEmpty ==
    Translated =>
        \A s \in StructNodes(LastParam, LastDef) :
            /\ s.d.required = <<>>
            /\ \A i \in 1..Len(Resolve(s.f.type).fields) :
                  identsToName(Resolve(s.f.type).fields[i].names) \notin Range(s.d.required)
            /\ Range(s.d.required) \subseteq DOMAIN s.d.properties

\* a struct with an untagged field and a field tagged required:"false" has been
\* expanded, both fields among its properties
C2_Witness ==
    /\ Translated
    /\ LastParam.type.k = "StructType"
    /\ Len(LastParam.type.fields) = 2
    /\ LastParam.type.fields[1].tag = NoTag
    /\ RequiredFalse(LastParam.type.fields[2].tag)
    /\ LastDef.type = Object
    /\ DOMAIN LastDef.properties = {"A", "B"}

\* ------------------------------------------------------------------------
\* C3
\* ------------------------------------------------------------------------
RECURSIVE DeclaredNames(_)
DeclaredNames(ps) ==
    IF ps = <<>> THEN <<>>
    ELSE (IF Head(ps).names = <<>> THEN <<"">> ELSE Head(ps).names) \o DeclaredNames(Tail(ps))

\* C3 as claimed: with two or more parameters, required holds every parameter
\* name once, in declaration order, each a key of properties.
C3_RequiredAllNames ==
    (Returned /\ Len(DeclaredNames(Params)) >= 2) =>
        LET req == result[1].parameters.required
        IN  /\ req = DeclaredNames(Params)
            /\ \A i, j \in 1..Len(req) : i /= j => req[i] /= req[j]
            /\ Range(req) \subseteq DOMAIN result[1].parameters.properties

\* ------------------------------------------------------------------------
\* C4
\* ------------------------------------------------------------------------
\* the table of the claim
BasicTable(name) ==
    CASE name = "bool" -> Boolean
      [] name \in {"int", "int8", "int16", "int32", "int64",
                   "uint", "uint8", "uint16", "uint32", "uint64"} -> Integer
      [] name \in {"float32", "float64"} -> Number
      [] name = "string" -> String
      [] OTHER -> Null

\* C4 as claimed: a basic type translates by the table, and every Definition
\* produced has one of the seven types.
C4_BasicTable ==
    Translated =>
        /\ \A n \in Nodes(LastParam, LastDef) :
              (n.f.type.k = "Ident" /\ n.f.type.name \in BasicNames)
                 => n.d.type = BasicTable(n.f.type.name)
        /\ \A d \in Defs(LastDef) : d.type \in DataTypes

\* ------------------------------------------------------------------------
\* C5
\* ------------------------------------------------------------------------
Unsupported(t) == Resolve(t).k \in {"MapType", "ChanType", "InterfaceType", "FuncType"}

\* C5 as claimed: a parameter or field of an unsupported category, literal or
\* named, gets type null, and stops the translation neither by an error nor by
\* a crash.
C5_UnsupportedIsNull ==
    /\ Translated =>
          \A n \in Nodes(LastParam, LastDef) : Unsupported(n.f.type) => n.d.type = Null
    /\ (pc \in {"done", "panic"} /\ fn /= <<>> /\ result = <<>>) => ~Unsupported(Params[k].type)

\* ------------------------------------------------------------------------
\* C6
\* ------------------------------------------------------------------------
\* the function declarations of that name, in all packages and files
Matching ==
    {pkgs[p][f][d] : <<p, f, d>> \in
        {x \in (1..Len(pkgs)) \X (1..MaxDecls + 1) \X (1..MaxDecls + 1) :
            /\ x[2] <= Len(pkgs[x[1]])
            /\ x[3] <= Len(pkgs[x[1]][x[2]])
            /\ pkgs[x[1]][x[2]][x[3]].kind = "FuncDecl"
            /\ pkgs[x[1]][x[2]][x[3]].name = funcName}}

\* C6 as claimed: the declaration translated is the first of that name, in
\* package order, then file and declaration order.
C6_FirstMatch ==
    (pc \in {"params", "done", "panic"} /\ fn /= <<>>) =>
        /\ fn[1] \in Matching
        /\ \A m \in Matching : fn[1].id <= m.id

\* ------------------------------------------------------------------------
\* C7
\* ------------------------------------------------------------------------
\* some struct tag of the type, at any depth, cannot be parsed
RECURSIVE HasBadTag(_)
HasBadTag(t) ==
    LET r == Resolve(t)
    IN  CASE r.k = "StructType" ->
                 \E i \in 1..Len(r.fields) :
                     \/ (r.fields[i].tag.present /\ ~r.fields[i].tag.wellFormed)
                     \/ HasBadTag(r.fields[i].type)
          [] r.k = "ArrayType" -> HasBadTag(r.elt)
          [] r.k = "StarExpr" -> HasBadTag(r.x)
          [] OTHER -> FALSE

\* C7 as claimed: an undeclared name gives ErrFunctionNotFound, an unparsable
\* tag at any depth gives an error, an error comes with no FunctionDetails, and
\* a FunctionDetails comes with no error.
C7_AllOrNothing ==
    pc = "done" =>
        /\ Matching = {} => (err = ErrFunctionNotFound /\ result = <<>>)
        /\ err /= "" => result = <<>>
        /\ result /= <<>> => err = ""
        /\ (fn /= <<>> /\ \E i \in 1..Len(Params) : HasBadTag(Params[i].type))
              => (err /= "" /\ result = <<>>)

\* ------------------------------------------------------------------------
\* C8
\* ------------------------------------------------------------------------
HasEnumKey(tag) == tag.present /\ \E i \in 1..Len(tag.pairs) : tag.pairs[i].key = "enum"

\* the value written for the (first) enum key of the tag
EnumValue(tag) ==
    LET first == CHOOSE i \in 1..Len(tag.pairs) :
                     /\ tag.pairs[i].key = "enum"
                     /\ \A j \in 1..(i - 1) : tag.pairs[j].key /= "enum"
    IN  tag.pairs[first].value

RECURSIVE JoinComma(_)
JoinComma(ss) ==
    IF Len(ss) = 0 THEN <<>>
    ELSE IF Len(ss) = 1 THEN ss[1]
    ELSE ss[1] \o <<",">> \o JoinComma(Tail(ss))

\* C8: the enum list of a field with an enum tag is the tag's value cut at its
\* commas, the pieces in the order written; a field with no enum key or no tag
\* has no enum list.
C8_EnumInTagOrder ==
    Translated =>
        \A n \in Nodes(LastParam, LastDef) :
            IF HasEnumKey(n.f.tag)
            THEN /\ Len(n.d.enum) >= 1
                 /\ \A i \in 1..Len(n.d.enum) : "," \notin Range(n.d.enum[i])
                 /\ JoinComma(n.d.enum) = EnumValue(n.f.tag)
            ELSE n.d.enum = <<>>

\* a struct whose field is tagged enum:"foo,bar" has been translated, the
\* field's enum list being foo, bar
C8_Witness ==
    /\ Translated
    /\ \E n \in Nodes(LastParam, LastDef) :
          /\ HasEnumKey(n.f.tag)
          /\ EnumValue(n.f.tag) = <<"foo", ",", "bar">>
          /\ n.d.enum = << <<"foo">>, <<"bar">> >>

\* ------------------------------------------------------------------------
\* C9
\* ------------------------------------------------------------------------
\* the items of an array are the translation of its element type, as far as
\* its shape shows
ItemsTranslate(elt, d) ==
    /\ Len(d.items) = 1
    /\ elt.k = "ArrayType" => (d.items[1].type = Array /\ Len(d.items[1].items) = 1)
    /\ Resolve(elt).k = "StructType" =>
          /\ d.items[1].type = Object
          /\ DOMAIN d.items[1].properties = FieldNamesOf(Resolve(elt))

\* C9 as claimed: an array has type array and items that are the recursive
\* translation of its element type; items only on arrays, properties only on
\* objects.
C9_ItemsRecursive ==
    Translated =>
        /\ \A n \in Nodes(LastParam, LastDef) :
              n.f.type.k = "ArrayType" => (n.d.type = Array /\ ItemsTranslate(n.f.type.elt, n.d))
        /\ \A d \in Defs(LastDef) :
              /\ d.items /= <<>> => d.type = Array
              /\ DOMAIN d.properties /= {} => d.type = Object

\* ------------------------------------------------------------------------
\* C10
\* ------------------------------------------------------------------------
Pointee(f) == [f EXCEPT !.type = f.type.x]

\* C10 as claimed: a pointer parameter gets the Definition its pointee type
\* gets, and its translation does not crash where the pointee's would not.
C10_PointerAsPointee ==
    /\ (Translated /\ LastParam.type.k = "StarExpr") =>
          LastDef = paramToDetail(Pointee(LastParam)).d
    /\ (pc = "panic" /\ Params[k].type.k = "StarExpr") =>
          paramToDetail(Pointee(Params[k])).status = "panic"

====
